---- MODULE Spec2Model ----
(***************************************************************************)
(* A model of hecs' World (src/src/world.rs): the entity slot table with   *)
(* generational handles, the free stack, the archetype list with its       *)
(* type-list index, and the structural operations spawn, despawn, insert   *)
(* and remove, together with the read operations contains, get, get_mut,   *)
(* entity, iter and query.                                                 *)
(*                                                                         *)
(* Ids, archetype indices and row indices are 0-based as in the source;    *)
(* TLA+ sequences are 1-based, so element i of a Vec is seq[i + 1].        *)
(*                                                                         *)
(* Archetype, BorrowState and QueryIter live in crate::archetype,          *)
(* crate::borrow and crate::query; their operations are modelled from      *)
(* sections 4.B, 4.C and 4.F of the specification. An Archetype call on a  *)
(* row that is not occupied (row >= len) has no defined result there and   *)
(* is modelled as a panic; no call is made on the world after a panic.     *)
(*                                                                         *)
(* The handles passed to calls are those spawn has returned.               *)
(***************************************************************************)
EXTENDS Integers, Sequences, FiniteSets, TLC

\* ------------------------------------------------------------------ bounds
\* Component values are 1..MaxVal; at most MaxEntities slots are ever created; a
\* run makes at most MaxOps calls (MaxDeepOps in the runs of SpecDeep, MaxSlotOps in
\* the runs of SpecSlots, MaxBorrowOps in the runs of SpecBorrow). MaxThreads
\* threads share the world, each holding at most MaxHeld borrow guards at a time.
MaxVal == 2
MaxEntities == 3
MaxOps == 3
MaxDeepOps == 6
MaxSlotOps == 6
MaxThreads == 3
MaxHeld == 2
MaxBorrowOps == 4

\* Two component types, A = 1 and B = 2, ordered by key.
TypeKeys == {1, 2}
Values == 1..MaxVal
Threads == 1..MaxThreads

\* The guards that hold a borrow: Ref (get), RefMut (get_mut), and a query
\* iterator inside a matching archetype, for &T or &mut T.
GuardKinds == {"Ref", "RefMut", "QueryRef", "QueryMut"}
SharedKinds == {"Ref", "QueryRef"}
ExclusiveKinds == {"RefMut", "QueryMut"}

\* No thread has panicked or holds a guard.
NoGuards ==
    [t \in Threads |->
        [panicked |-> FALSE, guards |-> [g \in GuardKinds \X TypeKeys |-> 0]]]

\* ------------------------------------------------------------------- state
VARIABLES
    entities,         \* Vec<EntityMeta>: [generation, archetype, index]
    free,             \* Vec<u32>: stack of vacant slot ids, top is the last element
    archetypes,       \* Vec<Archetype>
    archetype_index,  \* FxHashMap<Vec<TypeId>, usize>
    borrows,          \* BorrowState: ensured TypeKey -> borrow counter
    panicked,         \* a call has panicked: the world is not used afterwards
    handles,          \* history: the Entity handles spawn has returned
    despawned,        \* history: the handles for which despawn returned Ok
    stored,           \* history: per slot id, the value last stored per type by spawn/insert
    lastOp,           \* history: the last call, its arguments and what it returned
    prevOp,           \* history: the call before the last
    nops,             \* number of calls made so far
    highWater,        \* history: the largest number of handles live at one time so far
    threads,          \* per thread: whether it panicked, and the guards it holds per type
    budget            \* number of calls the run may make

world == <<entities, free, archetypes, archetype_index, borrows>>
vars == <<entities, free, archetypes, archetype_index, borrows, panicked,
          handles, despawned, stored, lastOp, prevOp, nops, highWater, threads,
          budget>>

\* ----------------------------------------------------------------- helpers
SeqToSet(s) == {s[i] : i \in 1..Len(s)}

Last(s) == s[Len(s)]

Front(s) == SubSeq(s, 1, Len(s) - 1)

Max(a, b) == IF a >= b THEN a ELSE b

RECURSIVE Sum(_, _)
Sum(f, S) ==
    IF S = {} THEN 0
    ELSE LET x == CHOOSE y \in S : TRUE IN f[x] + Sum(f, S \ {x})

\* Vec::sort_unstable on type keys (TypeInfo is ordered by key): insertion sort.
RECURSIVE InsertSorted(_, _)
InsertSorted(s, x) ==
    IF s = <<>> THEN <<x>>
    ELSE IF x <= Head(s) THEN <<x>> \o s
    ELSE <<Head(s)>> \o InsertSorted(Tail(s), x)

RECURSIVE SortTypes(_)
SortTypes(s) == IF s = <<>> THEN <<>> ELSE InsertSorted(SortTypes(Tail(s)), Head(s))

\* iter().filter(|x| x.id() != TypeId::of::<T>()).collect()
RECURSIVE FilterOut(_, _)
FilterOut(s, ty) ==
    IF s = <<>> THEN <<>>
    ELSE IF Head(s) = ty THEN FilterOut(Tail(s), ty)
    ELSE <<Head(s)>> \o FilterOut(Tail(s), ty)

\* The content of a freshly allocated, not yet written cell.
Uninit == 0

Entity(i, g) == [id |-> i, generation |-> g]

NoEntity == Entity(-1, -1)

\* A bundle is a tuple of components in declaration order, one per distinct type.
\* Each component is <<type, value>>.
RECURSIVE Perms(_)
Perms(S) ==
    IF S = {} THEN {<<>>}
    ELSE UNION {{<<x>> \o p : p \in Perms(S \ {x})} : x \in S}

BundlesOf(Types) ==
    UNION {{[i \in 1..Len(p) |-> <<p[i], v[p[i]]>>] : v \in [T -> Values], p \in Perms(T)}
           : T \in SUBSET Types}

Bundles == BundlesOf(TypeKeys)

\* --------------------------------------------------------------- Archetype
\* An archetype is [types, ids, rows]: its type list as given to Archetype::new,
\* the entity id of every occupied row, and the cells of every occupied row as a
\* function from the archetype's types to values (one column per type). len is
\* the number of occupied rows.
ArchetypeNew(info) == [types |-> info, ids |-> <<>>, rows |-> <<>>]

ArchLen(arch) == Len(arch.ids)

ArchTypeSet(arch) == SeqToSet(arch.types)

\* has::<T>(): whether the archetype has a column for ty
HasType(arch, ty) == ty \in ArchTypeSet(arch)

\* entity_id(index)
EntityIdAt(arch, row) == arch.ids[row + 1]

\* allocate(id): appends a row whose cells are not yet written; the new row's
\* index is the len before the call.
Allocate(arch, id) ==
    [arch EXCEPT !.ids = Append(@, id),
                 !.rows = Append(@, [t \in ArchTypeSet(arch) |-> Uninit])]

\* get::<T>(index): the cell's value (the source returns None when the type is
\* absent; callers test HasType first).
ArchGet(arch, row, ty) == arch.rows[row + 1][ty]

\* put(component, index)
ArchPut(arch, ty, val, row) == [arch EXCEPT !.rows[row + 1][ty] = val]

\* take::<T>(index): moves the value out bitwise; the bytes stay in the cell.
ArchTake(arch, row, ty) == arch.rows[row + 1][ty]

\* remove(index): the entity id moved into the vacated row by the swap-remove,
\* or -1 for None.
RemoveMoved(arch, row) ==
    IF row # ArchLen(arch) - 1 THEN arch.ids[ArchLen(arch)] ELSE -1

\* remove(index): drops the row, moves the last row into it, decrements len.
ArchRemove(arch, row) ==
    LET last == ArchLen(arch) - 1
        ids1 == IF row # last THEN [arch.ids EXCEPT ![row + 1] = arch.ids[last + 1]]
                ELSE arch.ids
        rows1 == IF row # last THEN [arch.rows EXCEPT ![row + 1] = arch.rows[last + 1]]
                 ELSE arch.rows
    IN  [arch EXCEPT !.ids = Front(ids1), !.rows = Front(rows1)]

\* move_component_set(row).store(target, trow): copies every component present in
\* both archetypes from the source row into the target row. The source row is
\* left as it is.
MoveComponentSetStore(source, row, target, trow) ==
    [target EXCEPT !.rows[trow + 1] =
        [t \in ArchTypeSet(target) |->
            IF HasType(source, t) THEN source.rows[row + 1][t] ELSE @[t]]]

\* ------------------------------------------------------------- BorrowState
\* ensure(key): registers the key with a zero counter if absent.
Ensure(b, ty) == IF ty \in DOMAIN b THEN b ELSE b @@ (ty :> 0)

\* The counter of a key: 0 unborrowed, n > 0 for n shared borrows, Exclusive for
\* the exclusive borrow.
Exclusive == -1

\* acquire_shared(key): the counter after it, or "panic" when the key is held
\* exclusively (or was never ensured).
AcquireShared(b, ty) ==
    IF ty \in DOMAIN b /\ b[ty] >= 0 THEN [res |-> "ok", borrows |-> [b EXCEPT ![ty] = @ + 1]]
    ELSE [res |-> "panic", borrows |-> b]

\* acquire_exclusive(key): succeeds only from 0.
AcquireExclusive(b, ty) ==
    IF ty \in DOMAIN b /\ b[ty] = 0 THEN [res |-> "ok", borrows |-> [b EXCEPT ![ty] = Exclusive]]
    ELSE [res |-> "panic", borrows |-> b]

\* release_shared(key)
ReleaseShared(b, ty) == [b EXCEPT ![ty] = @ - 1]

\* release_exclusive(key)
ReleaseExclusive(b, ty) == [b EXCEPT ![ty] = 0]

\* Mutant: spawn registers no type of a new archetype.
EnsureAllNone(b, info) == b

RECURSIVE EnsureAll(_, _)
EnsureAll(b, info) ==
    IF info = <<>> THEN b ELSE EnsureAll(Ensure(b, Head(info)), Tail(info))

\* ------------------------------------------------------------------ Bundle
\* Mutant: info keeps the declaration order.
BundleInfoDeclared(components) == [i \in 1..Len(components) |-> components[i][1]]

\* Bundle::info for tuples: the declared types, sorted.
BundleInfo(components) ==
    SortTypes([i \in 1..Len(components) |-> components[i][1]])

\* Bundle::elements for tuples: the ids of info().
BundleElements(components) == BundleInfo(components)

\* Bundle::store for tuples: put each component, in declaration order.
RECURSIVE BundleStore(_, _, _)
BundleStore(components, arch, row) ==
    IF components = <<>> THEN arch
    ELSE BundleStore(Tail(components),
                     ArchPut(arch, Head(components)[1], Head(components)[2], row), row)

\* ----------------------------------------------------------- EntityBuilder
\* A builder is its components Vec, each component <<type, value>>.
\* EntityBuilder::add
BuilderAdd(components, ty, val) == Append(components, <<ty, val>>)

\* sort_unstable_by on the type of each component: insertion sort
RECURSIVE InsertByType(_, _)
InsertByType(s, c) ==
    IF s = <<>> THEN <<c>>
    ELSE IF c[1] <= Head(s)[1] THEN <<c>> \o s
    ELSE <<Head(s)>> \o InsertByType(Tail(s), c)

\* EntityBuilder::new() followed by one add per element of adds, in order
RECURSIVE BuilderAddAll(_)
BuilderAddAll(adds) ==
    IF adds = <<>> THEN <<>>
    ELSE BuilderAdd(BuilderAddAll(Front(adds)), Last(adds)[1], Last(adds)[2])

\* EntityBuilder::build: the components sorted by type (types are distinct here,
\* so the unstable sort has one result)
RECURSIVE BuilderBuild(_)
BuilderBuild(components) ==
    IF components = <<>> THEN <<>>
    ELSE InsertByType(BuilderBuild(Tail(components)), Head(components))

\* Bundle::info for BuiltEntity: the types of the components, in their order.
BuiltInfo(built) == [i \in 1..Len(built) |-> built[i][1]]

\* Bundle::elements for BuiltEntity
BuiltElements(built) == BuiltInfo(built)

\* ------------------------------------------------------------------- World
\* What a call returns and the world it leaves: res is "ok", "nse" (NoSuchEntity)
\* or "panic"; entity is the handle spawn returns; val is the component remove
\* returns.
Result(res, entity, val, es, fr, as, ai, bs) ==
    [res |-> res, entity |-> entity, val |-> val, entities |-> es, free |-> fr,
     archetypes |-> as, archetype_index |-> ai, borrows |-> bs]

\* The early return of despawn, insert and remove: Err(NoSuchEntity), nothing touched.
Rejected ==
    Result("nse", NoEntity, 0, entities, free, archetypes, archetype_index, borrows)

\* meta.generation != entity.generation
Stale(meta, entity) == meta.generation # entity.generation

\* World::contains, on a given slot table
ContainsIn(es, entity) == es[entity.id + 1].generation = entity.generation

\* World::contains
Contains(entity) == ContainsIn(entities, entity)

\* The component types of a live entity: the types of the archetype its meta names.
TypeSetIn(es, as, entity) == ArchTypeSet(as[es[entity.id + 1].archetype + 1])

\* Mutant: a reused slot's handle starts again at generation 0.
SpawnGenerationZero(i) == 0

\* The generation a reused slot's handle gets: the one despawn left in the slot.
SpawnGeneration(i) == entities[i + 1].generation

\* Mutant: the slot on top of the free stack is used but stays on the stack.
SpawnSlotNoPop ==
    IF free # <<>>
    THEN [entity |-> Entity(Last(free), entities[Last(free) + 1].generation),
          entities |-> entities, free |-> free]
    ELSE [entity |-> Entity(Len(entities), 0),
          entities |-> Append(entities, [generation |-> 0, archetype |-> 0, index |-> 0]),
          free |-> free]

\* Mutant: a fresh EntityMeta is pushed whether or not a slot is free.
SpawnSlotAlwaysPush ==
    [entity |-> Entity(Len(entities), 0),
     entities |-> Append(entities, [generation |-> 0, archetype |-> 0, index |-> 0]),
     free |-> free]

\* spawn, first statement: pop the free stack or push a fresh EntityMeta.
SpawnSlot ==
    IF free # <<>>
    THEN LET i == Last(free)
         IN  [entity |-> Entity(i, SpawnGeneration(i)), entities |-> entities,
              free |-> Front(free)]
    ELSE LET i == Len(entities)
         IN  [entity |-> Entity(i, 0),
              entities |-> Append(entities, [generation |-> 0, archetype |-> 0, index |-> 0]),
              free |-> free]

\* World::spawn, for a bundle with the given elements() and info(), whose store
\* puts the given components.
SpawnWith(elements, info, components) ==
    LET slot == SpawnSlot
        id == slot.entity.id
        vacant == elements \notin DOMAIN archetype_index
        borrows1 == IF vacant THEN EnsureAll(borrows, info) ELSE borrows
        archs1 == IF vacant THEN Append(archetypes, ArchetypeNew(info)) ELSE archetypes
        aidx1 == IF vacant THEN archetype_index @@ (elements :> Len(archetypes))
                 ELSE archetype_index
        archetype == aidx1[elements]
        index == ArchLen(archs1[archetype + 1])
        arch1 == BundleStore(components, Allocate(archs1[archetype + 1], id), index)
    IN  Result("ok", slot.entity, 0,
               [slot.entities EXCEPT ![id + 1].archetype = archetype,
                                     ![id + 1].index = index],
               slot.free, [archs1 EXCEPT ![archetype + 1] = arch1], aidx1, borrows1)

\* World::spawn of a tuple
SpawnCall(components) ==
    SpawnWith(BundleElements(components), BundleInfo(components), components)

\* World::spawn of EntityBuilder::new() with add called once per component, in
\* the given order, then build()
SpawnBuiltCall(adds) ==
    LET built == BuilderBuild(BuilderAddAll(adds))
    IN  SpawnWith(BuiltElements(built), BuiltInfo(built), built)

\* Mutant: despawn leaves the generation as it is.
BumpGenerationNone(g) == g

\* meta.generation += 1
BumpGeneration(g) == g + 1

\* despawn, after the generation check. Archetype::remove on a row that is not
\* occupied is a panic.
DespawnLive(entity) ==
    LET id == entity.id
        meta == entities[id + 1]
        ents1 == [entities EXCEPT ![id + 1].generation = BumpGeneration(@)]
        arch == archetypes[meta.archetype + 1]
        moved == RemoveMoved(arch, meta.index)
        ents2 == IF moved # -1 THEN [ents1 EXCEPT ![moved + 1].index = meta.index]
                 ELSE ents1
    IN  IF meta.index >= ArchLen(arch)
        THEN Result("panic", NoEntity, 0, ents1, free, archetypes, archetype_index, borrows)
        ELSE Result("ok", NoEntity, 0, ents2, Append(free, id),
                    [archetypes EXCEPT ![meta.archetype + 1] = ArchRemove(arch, meta.index)],
                    archetype_index, borrows)

\* Mutant: the slot is pushed on the free stack before the generation check.
DespawnCallPushFirst(entity) ==
    IF Stale(entities[entity.id + 1], entity)
    THEN [Rejected EXCEPT !.free = Append(free, entity.id)]
    ELSE DespawnLive(entity)

\* World::despawn
DespawnCall(entity) ==
    IF Stale(entities[entity.id + 1], entity) THEN Rejected ELSE DespawnLive(entity)

\* insert: the target type list, the source's types with T pushed at the end.
InsertInfo(types, ty) == Append(types, ty)

\* Mutant: the new component is never put in the target row.
InsertMovedNoPut(source_arch, row, target_arch, id, ty, component) ==
    MoveComponentSetStore(source_arch, row, Allocate(target_arch, id), ArchLen(target_arch))

\* Mutant: the source row's components are never stored in the target row.
InsertMovedNoStore(source_arch, row, target_arch, id, ty, component) ==
    ArchPut(Allocate(target_arch, id), ty, component, ArchLen(target_arch))

\* insert, the branch that changes archetype: the target archetype after the new
\* row is allocated, the source row's components are stored in it and the new
\* component is put.
InsertMoved(source_arch, row, target_arch, id, ty, component) ==
    ArchPut(MoveComponentSetStore(source_arch, row, Allocate(target_arch, id),
                                  ArchLen(target_arch)),
            ty, component, ArchLen(target_arch))

\* insert, after the generation check.
InsertLive(entity, ty, component) ==
    LET id == entity.id
        meta == entities[id + 1]
        info == InsertInfo(archetypes[meta.archetype + 1].types, ty)
        elements == info
        vacant == elements \notin DOMAIN archetype_index
        borrows1 == IF vacant THEN Ensure(borrows, ty) ELSE borrows
        archs1 == IF vacant THEN Append(archetypes, ArchetypeNew(info)) ELSE archetypes
        aidx1 == IF vacant THEN archetype_index @@ (elements :> Len(archetypes))
                 ELSE archetype_index
        target == aidx1[elements]
        source_arch == archs1[meta.archetype + 1]
        target_arch == archs1[target + 1]
        index == ArchLen(target_arch)
    IN  IF meta.index >= ArchLen(source_arch) \/ (target = meta.archetype /\ ~HasType(source_arch, ty))
        THEN Result("panic", NoEntity, 0, entities, free, archs1, aidx1, borrows1)
        ELSE IF target = meta.archetype
        THEN Result("ok", NoEntity, 0, entities, free,
                    [archs1 EXCEPT ![target + 1] = ArchPut(source_arch, ty, component, meta.index)],
                    aidx1, borrows1)
        ELSE Result("ok", NoEntity, 0,
                    [entities EXCEPT ![id + 1].archetype = target, ![id + 1].index = index],
                    free,
                    [archs1 EXCEPT ![target + 1] =
                        InsertMoved(source_arch, meta.index, target_arch, id, ty, component)],
                    aidx1, borrows1)

\* World::insert
InsertCall(entity, ty, component) ==
    IF Stale(entities[entity.id + 1], entity) THEN Rejected
    ELSE InsertLive(entity, ty, component)

\* Mutant: the filter is inverted and keeps only T.
RECURSIVE RemoveInfoInverted(_, _)
RemoveInfoInverted(types, ty) ==
    IF types = <<>> THEN <<>>
    ELSE IF Head(types) = ty THEN <<ty>> \o RemoveInfoInverted(Tail(types), ty)
    ELSE RemoveInfoInverted(Tail(types), ty)

\* remove: the target type list, the source's types without T.
RemoveInfo(types, ty) == FilterOut(types, ty)

\* remove, after the generation check. index2 panics when target is the source,
\* that is when the entity has no T.
RemoveLive(entity, ty) ==
    LET id == entity.id
        meta == entities[id + 1]
        info == RemoveInfo(archetypes[meta.archetype + 1].types, ty)
        elements == info
        vacant == elements \notin DOMAIN archetype_index
        archs1 == IF vacant THEN Append(archetypes, ArchetypeNew(info)) ELSE archetypes
        aidx1 == IF vacant THEN archetype_index @@ (elements :> Len(archetypes))
                 ELSE archetype_index
        target == aidx1[elements]
        source_arch == archs1[meta.archetype + 1]
        target_arch == archs1[target + 1]
        x == ArchTake(source_arch, meta.index, ty)
        index == ArchLen(target_arch)
        moved == MoveComponentSetStore(source_arch, meta.index,
                                       Allocate(target_arch, id), index)
    IN  IF target = meta.archetype \/ meta.index >= ArchLen(source_arch)
           \/ ~HasType(source_arch, ty)
        THEN Result("panic", NoEntity, 0, entities, free, archs1, aidx1, borrows)
        ELSE Result("ok", NoEntity, x,
                    [entities EXCEPT ![id + 1].archetype = target, ![id + 1].index = index],
                    free, [archs1 EXCEPT ![target + 1] = moved], aidx1, borrows)

\* World::remove
RemoveCall(entity, ty) ==
    IF Stale(entities[entity.id + 1], entity) THEN Rejected ELSE RemoveLive(entity, ty)

\* Mutant: a missing component is reported as NoSuchEntity.
GetInMissingIsError(es, as, entity, ty) ==
    LET meta == es[entity.id + 1]
        arch == as[meta.archetype + 1]
    IN  IF Stale(meta, entity) \/ ~HasType(arch, ty) THEN [res |-> "nse", val |-> 0]
        ELSE IF meta.index >= ArchLen(arch) THEN [res |-> "panic", val |-> 0]
        ELSE [res |-> "ok", val |-> ArchGet(arch, meta.index, ty)]

\* World::get / World::get_mut: "nse", "panic" (the entity has no T, or its row is
\* not an occupied row) or "ok" with the value behind the guard. No guard is
\* outstanding between calls, so the borrow itself never conflicts.
GetIn(es, as, entity, ty) ==
    LET meta == es[entity.id + 1]
        arch == as[meta.archetype + 1]
    IN  IF Stale(meta, entity) THEN [res |-> "nse", val |-> 0]
        ELSE IF ~HasType(arch, ty) \/ meta.index >= ArchLen(arch)
        THEN [res |-> "panic", val |-> 0]
        ELSE [res |-> "ok", val |-> ArchGet(arch, meta.index, ty)]

GetCall(entity, ty) == GetIn(entities, archetypes, entity, ty)

\* Mutant: get_mut takes a shared borrow.
GetMutAcquireShared(b, ty) == AcquireShared(b, ty)

\* Ref::new in get: the shared borrow of T.
GetAcquire(b, ty) == AcquireShared(b, ty)

\* RefMut::new in get_mut: the exclusive borrow of T.
GetMutAcquire(b, ty) == AcquireExclusive(b, ty)

\* World::get while other guards may be outstanding: the generation check, the
\* lookup of the cell (panic when the entity has no T), then the borrow.
GetGuard(entity, ty) ==
    IF GetCall(entity, ty).res # "ok"
    THEN [res |-> GetCall(entity, ty).res, borrows |-> borrows]
    ELSE GetAcquire(borrows, ty)

\* World::get_mut while other guards may be outstanding
GetMutGuard(entity, ty) ==
    IF GetCall(entity, ty).res # "ok"
    THEN [res |-> GetCall(entity, ty).res, borrows |-> borrows]
    ELSE GetMutAcquire(borrows, ty)

\* A query::<&T>() or query::<&mut T>() iterator entering an archetype that has
\* T: the borrow it takes for the traversal. "none" when no archetype matches.
QueryGuard(ty, exclusive) ==
    IF \A a \in 1..Len(archetypes) : ~HasType(archetypes[a], ty)
    THEN [res |-> "none", borrows |-> borrows]
    ELSE IF exclusive THEN AcquireExclusive(borrows, ty)
    ELSE AcquireShared(borrows, ty)

\* World::entity
EntityCall(entity) ==
    IF Stale(entities[entity.id + 1], entity) THEN "nse" ELSE "ok"

\* Iter::next, collected: archetypes in order, rows 0..len-1 of each; the handle
\* yielded for a row is its recorded id with the slot's current generation.
IterRow(arch, row) ==
    Entity(EntityIdAt(arch, row), entities[EntityIdAt(arch, row) + 1].generation)

RECURSIVE IterFrom(_)
IterFrom(a) ==
    IF a > Len(archetypes) THEN <<>>
    ELSE [r \in 1..ArchLen(archetypes[a]) |-> IterRow(archetypes[a], r - 1)]
         \o IterFrom(a + 1)

\* World::iter().collect()
IterCall == IterFrom(1)

\* query::<(&A, &B)>(): archetypes holding both types, every row of each, as
\* [entity, a, b].
RECURSIVE QueryFrom(_, _, _)
QueryFrom(a, tyA, tyB) ==
    IF a > Len(archetypes) THEN <<>>
    ELSE (IF HasType(archetypes[a], tyA) /\ HasType(archetypes[a], tyB)
          THEN [r \in 1..ArchLen(archetypes[a]) |->
                   [entity |-> IterRow(archetypes[a], r - 1),
                    a |-> ArchGet(archetypes[a], r - 1, tyA),
                    b |-> ArchGet(archetypes[a], r - 1, tyB)]]
          ELSE <<>>)
         \o QueryFrom(a + 1, tyA, tyB)

\* World::query::<(&A, &B)>().collect()
QueryCall(tyA, tyB) == QueryFrom(1, tyA, tyB)

\* ----------------------------------------------------------------- actions
\* A call as recorded: its name, the handle passed (for spawn, returned), the
\* type and value passed (for remove, get and get_mut the value returned), the
\* result, what iter or query yielded, and the component types the entity had
\* before the call (for a call on a live handle).
Op(op, entity, ty, val, res, out, before) ==
    [op |-> op, entity |-> entity, ty |-> ty, val |-> val, res |-> res, out |-> out,
     before |-> before]

Before(entity) ==
    IF Contains(entity) THEN TypeSetIn(entities, archetypes, entity) ELSE {}

\* World::new()
Init ==
    /\ entities = <<>>
    /\ free = <<>>
    /\ archetypes = <<>>
    /\ archetype_index = <<>>
    /\ borrows = <<>>
    /\ panicked = FALSE
    /\ handles = {}
    /\ despawned = {}
    /\ stored = <<>>
    /\ lastOp = Op("new", NoEntity, 0, 0, "ok", <<>>, {})
    /\ prevOp = Op("new", NoEntity, 0, 0, "ok", <<>>, {})
    /\ nops = 0
    /\ highWater = 0
    /\ threads = NoGuards
    /\ budget = MaxOps

\* A call can be made: no earlier call panicked, and the call budget is not spent.
CanCall == ~panicked /\ nops < budget

\* The world a call leaves.
Apply(r) ==
    /\ entities' = r.entities
    /\ free' = r.free
    /\ archetypes' = r.archetypes
    /\ archetype_index' = r.archetype_index
    /\ borrows' = r.borrows
    /\ panicked' = (r.res = "panic")
    /\ nops' = nops + 1
    /\ prevOp' = lastOp
    /\ UNCHANGED <<threads, budget>>

\* A read call: the world is untouched.
Read(res) ==
    /\ UNCHANGED <<world, handles, despawned, stored, highWater>>
    /\ panicked' = (res = "panic")
    /\ nops' = nops + 1
    /\ prevOp' = lastOp
    /\ UNCHANGED <<threads, budget>>

\* The values a bundle stores, by type.
BundleValues(components) ==
    [t \in {components[i][1] : i \in 1..Len(components)} |->
        (CHOOSE c \in SeqToSet(components) : c[1] = t)[2]]

\* The types of a bundle in the order they were declared (tuple) or added (builder).
Declared(components) == [i \in 1..Len(components) |-> components[i][1]]

SetStored(id, f) ==
    IF id + 1 > Len(stored) THEN Append(stored, f) ELSE [stored EXCEPT ![id + 1] = f]

Spawn(components) ==
    /\ CanCall
    /\ free # <<>> \/ Len(entities) < MaxEntities
    /\ LET r == SpawnCall(components)
       IN  /\ Apply(r)
           /\ handles' = handles \cup {r.entity}
           /\ highWater' = Max(highWater, Cardinality((handles \cup {r.entity}) \ despawned))
           /\ stored' = SetStored(r.entity.id, BundleValues(components))
           /\ lastOp' = Op("spawn", r.entity, 0, 0, r.res, <<>>, {})
    /\ UNCHANGED despawned

Despawn(entity) ==
    /\ CanCall
    /\ LET r == DespawnCall(entity)
       IN  /\ Apply(r)
           /\ despawned' = IF r.res = "ok" THEN despawned \cup {entity} ELSE despawned
           /\ lastOp' = Op("despawn", entity, 0, 0, r.res, <<>>, Before(entity))
    /\ UNCHANGED <<handles, stored, highWater>>

Insert(entity, ty, component) ==
    /\ CanCall
    /\ LET r == InsertCall(entity, ty, component)
           old == stored[entity.id + 1]
       IN  /\ Apply(r)
           /\ stored' = IF r.res = "ok"
                        THEN SetStored(entity.id,
                                [t \in DOMAIN old \cup {ty} |->
                                    IF t = ty THEN component ELSE old[t]])
                        ELSE stored
           /\ lastOp' = Op("insert", entity, ty, component, r.res, <<>>, Before(entity))
    /\ UNCHANGED <<handles, despawned, highWater>>

Remove(entity, ty) ==
    /\ CanCall
    /\ LET r == RemoveCall(entity, ty)
           old == stored[entity.id + 1]
       IN  /\ Apply(r)
           /\ stored' = IF r.res = "ok"
                        THEN SetStored(entity.id, [t \in DOMAIN old \ {ty} |-> old[t]])
                        ELSE stored
           /\ lastOp' = Op("remove", entity, ty, r.val, r.res, <<>>, Before(entity))
    /\ UNCHANGED <<handles, despawned, highWater>>

ContainsOp(entity) ==
    /\ CanCall
    /\ Read("ok")
    /\ lastOp' = Op("contains", entity, 0, 0, IF Contains(entity) THEN "true" ELSE "false", <<>>, {})

Get(entity, ty) ==
    /\ CanCall
    /\ LET r == GetCall(entity, ty)
       IN  /\ Read(r.res)
           /\ lastOp' = Op("get", entity, ty, r.val, r.res, <<>>, Before(entity))

GetMut(entity, ty) ==
    /\ CanCall
    /\ LET r == GetCall(entity, ty)
       IN  /\ Read(r.res)
           /\ lastOp' = Op("get_mut", entity, ty, r.val, r.res, <<>>, Before(entity))

EntityOp(entity) ==
    /\ CanCall
    /\ Read("ok")
    /\ lastOp' = Op("entity", entity, 0, 0, EntityCall(entity), <<>>, Before(entity))

Iter ==
    /\ CanCall
    /\ Read("ok")
    /\ lastOp' = Op("iter", NoEntity, 0, 0, "ok", IterCall, {})

Query(tyA, tyB) ==
    /\ CanCall
    /\ Read("ok")
    /\ lastOp' = Op("query", NoEntity, tyA, tyB, "ok", QueryCall(tyA, tyB), {})

Next ==
    \/ \E components \in Bundles : Spawn(components)
    \/ \E entity \in handles : Despawn(entity)
    \/ \E entity \in handles, ty \in TypeKeys, component \in Values :
          Insert(entity, ty, component)
    \/ \E entity \in handles, ty \in TypeKeys : Remove(entity, ty)
    \/ \E entity \in handles : ContainsOp(entity)
    \/ \E entity \in handles, ty \in TypeKeys : Get(entity, ty)
    \/ \E entity \in handles, ty \in TypeKeys : GetMut(entity, ty)
    \/ \E entity \in handles : EntityOp(entity)
    \/ Iter
    \/ \E tyA \in TypeKeys : \E tyB \in TypeKeys \ {tyA} : Query(tyA, tyB)

Spec == Init /\ [][Next]_vars

\* Longer runs of the structural operations alone, over one component type.
DeepTypeKeys == {1}

InitDeep ==
    /\ entities = <<>>
    /\ free = <<>>
    /\ archetypes = <<>>
    /\ archetype_index = <<>>
    /\ borrows = <<>>
    /\ panicked = FALSE
    /\ handles = {}
    /\ despawned = {}
    /\ stored = <<>>
    /\ lastOp = Op("new", NoEntity, 0, 0, "ok", <<>>, {})
    /\ prevOp = Op("new", NoEntity, 0, 0, "ok", <<>>, {})
    /\ nops = 0
    /\ highWater = 0
    /\ threads = NoGuards
    /\ budget = MaxDeepOps

NextDeep ==
    \/ \E components \in BundlesOf(DeepTypeKeys) : Spawn(components)
    \/ \E entity \in handles : Despawn(entity)
    \/ \E entity \in handles, ty \in DeepTypeKeys, component \in Values :
          Insert(entity, ty, component)
    \/ \E entity \in handles, ty \in DeepTypeKeys : Remove(entity, ty)

SpecDeep == InitDeep /\ [][NextDeep]_vars

\* The bundles whose component types are exactly T, in every declaration order.
\* The archetype a spawn resolves to does not depend on the components' values:
\* every component has the value 1.
BundlesWith(T) == {[i \in 1..Len(p) |-> <<p[i], 1>>] : p \in Perms(T)}

\* Runs in which several threads share the world and keep their guards. The
\* acquire and the release of a borrow are atomic steps. A panic ends the thread
\* it happens in; the guards the thread holds are dropped as it unwinds.
Held(thread) == Sum(threads[thread].guards, GuardKinds \X TypeKeys)

Unborrowed == \A t \in Threads : Held(t) = 0

\* A call of thread that may return a guard of the given kind.
Acquire(thread, op, kind, entity, ty, r) ==
    /\ CanCall
    /\ ~threads[thread].panicked
    /\ Held(thread) < MaxHeld
    /\ borrows' = r.borrows
    /\ threads' = [threads EXCEPT ![thread] =
                      IF r.res = "ok" THEN [@ EXCEPT !.guards[<<kind, ty>>] = @ + 1]
                      ELSE IF r.res = "panic" THEN [@ EXCEPT !.panicked = TRUE]
                      ELSE @]
    /\ nops' = nops + 1
    /\ prevOp' = lastOp
    /\ lastOp' = Op(op, entity, ty, 0, r.res, <<>>,
                    IF entity = NoEntity THEN {} ELSE Before(entity))
    /\ UNCHANGED <<entities, free, archetypes, archetype_index, panicked, handles,
                   despawned, stored, highWater, budget>>

GetHold(thread, entity, ty) ==
    Acquire(thread, "get", "Ref", entity, ty, GetGuard(entity, ty))

GetMutHold(thread, entity, ty) ==
    Acquire(thread, "get_mut", "RefMut", entity, ty, GetMutGuard(entity, ty))

QueryRefHold(thread, ty) ==
    Acquire(thread, "query_ref", "QueryRef", NoEntity, ty, QueryGuard(ty, FALSE))

QueryMutHold(thread, ty) ==
    Acquire(thread, "query_mut", "QueryMut", NoEntity, ty, QueryGuard(ty, TRUE))

\* A guard is dropped (a query iterator leaves the archetype or is dropped).
DropGuard(thread, kind, ty) ==
    /\ CanCall
    /\ threads[thread].guards[<<kind, ty>>] > 0
    /\ borrows' = IF kind \in ExclusiveKinds THEN ReleaseExclusive(borrows, ty)
                  ELSE ReleaseShared(borrows, ty)
    /\ threads' = [threads EXCEPT ![thread].guards[<<kind, ty>>] = @ - 1]
    /\ nops' = nops + 1
    /\ prevOp' = lastOp
    /\ lastOp' = Op("drop", NoEntity, ty, 0, "ok", <<>>, {})
    /\ UNCHANGED <<entities, free, archetypes, archetype_index, panicked, handles,
                   despawned, stored, highWater, budget>>

InitBorrow ==
    /\ entities = <<>>
    /\ free = <<>>
    /\ archetypes = <<>>
    /\ archetype_index = <<>>
    /\ borrows = <<>>
    /\ panicked = FALSE
    /\ handles = {}
    /\ despawned = {}
    /\ stored = <<>>
    /\ lastOp = Op("new", NoEntity, 0, 0, "ok", <<>>, {})
    /\ prevOp = Op("new", NoEntity, 0, 0, "ok", <<>>, {})
    /\ nops = 0
    /\ highWater = 0
    /\ threads = NoGuards
    /\ budget = MaxBorrowOps

\* spawn and despawn take the world exclusively: no guard is outstanding.
NextBorrow ==
    \/ Unborrowed /\ \E T \in SUBSET TypeKeys : \E components \in BundlesWith(T) :
          Spawn(components)
    \/ Unborrowed /\ \E entity \in handles : Despawn(entity)
    \/ \E thread \in Threads, entity \in handles, ty \in TypeKeys :
          GetHold(thread, entity, ty)
    \/ \E thread \in Threads, entity \in handles, ty \in TypeKeys :
          GetMutHold(thread, entity, ty)
    \/ \E thread \in Threads, ty \in TypeKeys : QueryRefHold(thread, ty)
    \/ \E thread \in Threads, ty \in TypeKeys : QueryMutHold(thread, ty)
    \/ \E thread \in Threads, kind \in GuardKinds, ty \in TypeKeys :
          DropGuard(thread, kind, ty)

SpecBorrow == InitBorrow /\ [][NextBorrow]_vars

\* Runs of spawn and despawn alone.
InitSlots ==
    /\ entities = <<>>
    /\ free = <<>>
    /\ archetypes = <<>>
    /\ archetype_index = <<>>
    /\ borrows = <<>>
    /\ panicked = FALSE
    /\ handles = {}
    /\ despawned = {}
    /\ stored = <<>>
    /\ lastOp = Op("new", NoEntity, 0, 0, "ok", <<>>, {})
    /\ prevOp = Op("new", NoEntity, 0, 0, "ok", <<>>, {})
    /\ nops = 0
    /\ highWater = 0
    /\ threads = NoGuards
    /\ budget = MaxSlotOps

NextSlots ==
    \/ \E components \in BundlesOf(DeepTypeKeys) : Spawn(components)
    \/ \E entity \in handles : Despawn(entity)

SpecSlots == InitSlots /\ [][NextSlots]_vars

\* Runs in which spawn is recorded with its bundle: val is 0 for a tuple and 1
\* for a BuiltEntity, out is the bundle's types in the order they were declared
\* or added.
SpawnTuple(components) ==
    /\ CanCall
    /\ free # <<>> \/ Len(entities) < MaxEntities
    /\ LET r == SpawnCall(components)
       IN  /\ Apply(r)
           /\ handles' = handles \cup {r.entity}
           /\ highWater' = Max(highWater, Cardinality((handles \cup {r.entity}) \ despawned))
           /\ stored' = SetStored(r.entity.id, BundleValues(components))
           /\ lastOp' = Op("spawn", r.entity, 0, 0, r.res, Declared(components), {})
    /\ UNCHANGED despawned

SpawnBuilt(adds) ==
    /\ CanCall
    /\ free # <<>> \/ Len(entities) < MaxEntities
    /\ LET r == SpawnBuiltCall(adds)
       IN  /\ Apply(r)
           /\ handles' = handles \cup {r.entity}
           /\ highWater' = Max(highWater, Cardinality((handles \cup {r.entity}) \ despawned))
           /\ stored' = SetStored(r.entity.id, BundleValues(adds))
           /\ lastOp' = Op("spawn", r.entity, 0, 1, r.res, Declared(adds), {})
    /\ UNCHANGED despawned

NextBundle ==
    \/ \E T \in SUBSET TypeKeys : \E components \in BundlesWith(T) : SpawnTuple(components)
    \/ \E T \in SUBSET TypeKeys : \E adds \in BundlesWith(T) : SpawnBuilt(adds)
    \/ \E entity \in handles : Despawn(entity)
    \/ \E entity \in handles, ty \in TypeKeys : Insert(entity, ty, 1)
    \/ \E entity \in handles, ty \in TypeKeys : Remove(entity, ty)

SpecBundle == Init /\ [][NextBundle]_vars

\* ------------------------------------------------------------------ claims
\* The handles spawn has returned that have not been despawned.
Live == handles \ despawned

EntityOps == {"despawn", "insert", "remove", "get", "get_mut", "entity"}

C2_StaleStayDead ==
    [][/\ \A e \in despawned' :
            /\ ~ContainsIn(entities', e)
            /\ (DespawnCall(e).res = "nse")'
            /\ (EntityCall(e) = "nse")'
            /\ \A ty \in TypeKeys :
                  /\ (GetCall(e, ty).res = "nse")'
                  /\ (RemoveCall(e, ty).res = "nse")'
                  /\ \A component \in Values : (InsertCall(e, ty, component).res = "nse")'
       /\ (lastOp'.op \in EntityOps /\ lastOp'.entity \in despawned)
          => lastOp'.res = "nse"
       /\ (lastOp'.op = "contains" /\ lastOp'.entity \in despawned)
          => lastOp'.res = "false"
       /\ (lastOp'.op = "spawn") => lastOp'.entity \notin despawned]_vars

\* C2 witness: a call on a handle whose despawn had returned Ok returned
\* NoSuchEntity.
C2_Witness ==
    /\ lastOp.op = "get"
    /\ lastOp.res = "nse"
    /\ lastOp.entity \in despawned
    /\ prevOp.op = "despawn"
    /\ prevOp.res = "ok"
    /\ prevOp.entity = lastOp.entity

\* C3: a despawn, insert or remove that returns NoSuchEntity leaves entities,
\* free, archetypes, archetype_index and borrows exactly as they were.
C3_RejectedChangesNothing ==
    [][(lastOp'.op \in {"despawn", "insert", "remove"} /\ lastOp'.res = "nse")
       => UNCHANGED world]_vars

\* C3 witness: a second despawn of an already despawned handle was rejected while
\* the slot was on the free stack.
C3_Witness ==
    /\ lastOp.op = "despawn"
    /\ lastOp.res = "nse"
    /\ lastOp.entity \in despawned
    /\ lastOp.entity.id \in SeqToSet(free)

\* C4: insert postcondition. After insert(e, t: T) returns Ok, e is still live,
\* its component types are the previous ones plus T, and get::<T>(e) returns t,
\* whether or not e had a T before.
C4_InsertPost ==
    [][(lastOp'.op = "insert" /\ lastOp'.res = "ok")
       => /\ ContainsIn(entities', lastOp'.entity)
          /\ lastOp'.entity \in Live'
          /\ TypeSetIn(entities', archetypes', lastOp'.entity)
                = TypeSetIn(entities, archetypes, lastOp'.entity) \cup {lastOp'.ty}
          /\ GetIn(entities', archetypes', lastOp'.entity, lastOp'.ty)
                = [res |-> "ok", val |-> lastOp'.val]]_vars

\* C4 witness: an insert of a T succeeded on an entity that already had a T with
\* another value.
C4_Witness ==
    /\ lastOp.op = "insert"
    /\ lastOp.res = "ok"
    /\ lastOp.ty \in lastOp.before
    /\ prevOp.op = "spawn"
    /\ prevOp.entity = lastOp.entity
    /\ GetCall(lastOp.entity, lastOp.ty).val = lastOp.val
    /\ \E a \in 1..Len(archetypes) :
          /\ lastOp.ty \in ArchTypeSet(archetypes[a])
          /\ ArchLen(archetypes[a]) > 0
          /\ EntityIdAt(archetypes[a], 0) = lastOp.entity.id
          /\ ArchGet(archetypes[a], 0, lastOp.ty) # lastOp.val

\* C5: remove postcondition. When remove::<T>(e) returns Ok(v), v is the value
\* most recently stored for T on e by spawn or insert, e is still live, its
\* component types are the previous ones without T, and get::<T>(e) would panic.
C5_RemovePost ==
    [][(lastOp'.op = "remove" /\ lastOp'.res = "ok")
       => /\ lastOp'.ty \in DOMAIN stored[lastOp'.entity.id + 1]
          /\ lastOp'.val = stored[lastOp'.entity.id + 1][lastOp'.ty]
          /\ ContainsIn(entities', lastOp'.entity)
          /\ TypeSetIn(entities', archetypes', lastOp'.entity)
                = TypeSetIn(entities, archetypes, lastOp'.entity) \ {lastOp'.ty}
          /\ GetIn(entities', archetypes', lastOp'.entity, lastOp'.ty).res = "panic"]_vars

\* An insert(e, v: V) that returned Ok is directly followed by remove::<V>(e).
RoundTripStep ==
    /\ lastOp.op = "insert"
    /\ lastOp.res = "ok"
    /\ lastOp'.op = "remove"
    /\ lastOp'.entity = lastOp.entity
    /\ lastOp'.ty = lastOp.ty

\* What the round trip is claimed to give: the remove returns Ok with the value
\* inserted, and e has the component types it had before the insert.
RoundTripResult ==
    /\ lastOp'.res = "ok"
    /\ lastOp'.val = lastOp.val
    /\ TypeSetIn(entities', archetypes', lastOp'.entity) = lastOp.before

\* C6 as stated: insert(e, v); remove::<V>(e) returns v and leaves e with the
\* component types it had before the insert, for every live entity e.
C6_RoundTrip == [][RoundTripStep => RoundTripResult]_vars

\* C6 amended: the same for every live entity e that has no V component before
\* the insert.
C6_RoundTripWithoutV ==
    [][(RoundTripStep /\ lastOp.ty \notin lastOp.before) => RoundTripResult]_vars

\* C6 witness: a round trip on an entity that had another component and no V.
C6_Witness ==
    /\ lastOp.op = "remove"
    /\ lastOp.res = "ok"
    /\ prevOp.op = "insert"
    /\ prevOp.res = "ok"
    /\ prevOp.entity = lastOp.entity
    /\ prevOp.ty = lastOp.ty
    /\ prevOp.ty \notin prevOp.before
    /\ prevOp.before # {}
    /\ lastOp.val = prevOp.val

\* C7: after insert(e, t: T) or remove::<T>(e) returns Ok, get::<U>(e) returns
\* the same value as before the call, for every type U # T that e had.
C7_OtherComponentsKept ==
    [][(lastOp'.op \in {"insert", "remove"} /\ lastOp'.res = "ok")
       => \A U \in TypeSetIn(entities, archetypes, lastOp'.entity) \ {lastOp'.ty} :
             /\ GetIn(entities, archetypes, lastOp'.entity, U).res = "ok"
             /\ GetIn(entities', archetypes', lastOp'.entity, U)
                   = GetIn(entities, archetypes, lastOp'.entity, U)]_vars

\* C7 witness: spawn((x,)); insert(e, y); remove of x's type; e still has y.
C7_Witness ==
    /\ lastOp.op = "remove"
    /\ lastOp.res = "ok"
    /\ prevOp.op = "insert"
    /\ prevOp.res = "ok"
    /\ prevOp.entity = lastOp.entity
    /\ prevOp.ty # lastOp.ty
    /\ GetCall(lastOp.entity, prevOp.ty) = [res |-> "ok", val |-> prevOp.val]

\* C8: after a successful despawn(e), insert(e, c) or remove::<T>(e), every other
\* live entity f is still live, has the same component types, and get::<U>(f)
\* returns the same value as before for every type U it has.
C8_OthersUndisturbed ==
    [][(lastOp'.op \in {"despawn", "insert", "remove"} /\ lastOp'.res = "ok")
       => \A f \in Live \ {lastOp'.entity} :
             /\ ContainsIn(entities', f)
             /\ TypeSetIn(entities', archetypes', f) = TypeSetIn(entities, archetypes, f)
             /\ \A U \in TypeSetIn(entities, archetypes, f) :
                   GetIn(entities', archetypes', f, U) = GetIn(entities, archetypes, f, U)]_vars

\* What query::<(&A, &B)>() is claimed to yield: every live entity that has both
\* types, with its current values.
QueryExpected(tyA, tyB) ==
    {[entity |-> h, a |-> GetCall(h, tyA).val, b |-> GetCall(h, tyB).val] :
        h \in {l \in Live : {tyA, tyB} \subseteq TypeSetIn(entities, archetypes, l)}}

\* C9: query::<(&A, &B)>() yields exactly the live entities that have both A and
\* B, each once, with its current A and B values.
C9_QueryComplete ==
    lastOp.op = "query"
    => /\ SeqToSet(lastOp.out) = QueryExpected(lastOp.ty, lastOp.val)
       /\ Len(lastOp.out) = Cardinality(QueryExpected(lastOp.ty, lastOp.val))

\* C10: iter() yields every live entity exactly once and nothing else; every
\* yielded handle satisfies contains, and the number of items is the number of
\* live entities, at most entities.len().
C10_IterExact ==
    lastOp.op = "iter"
    => /\ SeqToSet(lastOp.out) = Live
       /\ Len(lastOp.out) = Cardinality(Live)
       /\ \A i \in 1..Len(lastOp.out) : Contains(lastOp.out[i])
       /\ Len(lastOp.out) <= Len(entities)

\* The archetype index a spawn resolved to.
SpawnArchetype(r) == r.entities[r.entity.id + 1].archetype

\* C11: spawn is independent of declaration order. For every set T of distinct
\* component types, spawning T as a tuple in any order of declaration, or as an
\* EntityBuilder with add called in any order, resolves to one and the same
\* archetype index. After a spawn of T, every further spawn of T (tuple or
\* builder, any order) resolves to the archetype that spawn resolved to and
\* creates no archetype; an entry of archetype_index is never changed or dropped.
C11_SpawnOrderIndependent ==
    /\ [](/\ \A T \in SUBSET TypeKeys :
               Cardinality({SpawnArchetype(SpawnCall(b)) : b \in BundlesWith(T)}
                           \cup {SpawnArchetype(SpawnBuiltCall(b)) : b \in BundlesWith(T)}) = 1
          /\ lastOp.op = "spawn"
             => \A b \in BundlesWith(SeqToSet(lastOp.out)) :
                   /\ SpawnArchetype(SpawnCall(b)) = entities[lastOp.entity.id + 1].archetype
                   /\ SpawnArchetype(SpawnBuiltCall(b))
                         = entities[lastOp.entity.id + 1].archetype
                   /\ Len(SpawnCall(b).archetypes) = Len(archetypes)
                   /\ Len(SpawnBuiltCall(b).archetypes) = Len(archetypes))
    /\ [][\A k \in DOMAIN archetype_index :
             k \in DOMAIN archetype_index' /\ archetype_index'[k] = archetype_index[k]]_vars

\* C11 witness: a tuple of two types was spawned, then a builder with the same
\* two types added in the opposite order; both entities are rows of the one
\* archetype there is.
C11_Witness ==
    /\ prevOp.op = "spawn" /\ prevOp.val = 0 /\ Len(prevOp.out) = 2
    /\ lastOp.op = "spawn" /\ lastOp.val = 1
    /\ lastOp.out = <<prevOp.out[2], prevOp.out[1]>>
    /\ Len(archetypes) = 1
    /\ archetypes[1].ids = <<prevOp.entity.id, lastOp.entity.id>>

\* C12: no slot growth past the high-water mark. entities.len() is always the
\* largest number of entities that were live at one time so far, and a spawn
\* appends an EntityMeta exactly when the free stack is empty.
C12_NoSlotGrowth ==
    /\ [](Len(entities) = highWater)
    /\ [][lastOp'.op = "spawn"
          => Len(entities') = Len(entities) + (IF free = <<>> THEN 1 ELSE 0)]_vars

\* C12 witness: two entities were spawned, one was despawned and one more was
\* spawned: two slots, two live entities.
C12_Witness ==
    /\ lastOp.op = "spawn"
    /\ prevOp.op = "despawn" /\ prevOp.res = "ok"
    /\ Cardinality(handles) = 3
    /\ Cardinality(Live) = 2
    /\ Len(entities) = 2
    /\ free = <<>>

\* The outstanding guards of the given kinds for T, over all threads.
Outstanding(th, kinds, ty) ==
    Sum([x \in Threads \X kinds |-> th[x[1]].guards[<<x[2], ty>>]], Threads \X kinds)

\* C13: borrow exclusion per component type. At every moment, for every type
\* T, at most one exclusive guard for T is outstanding, and none together with
\* another guard for T. A get or a query::<&T> that reaches its borrow panics
\* exactly when an exclusive guard for T is outstanding (shared guards coexist in
\* any number); a get_mut or a query::<&mut T> panics exactly when any guard for
\* T is outstanding; a call that does not panic returns a guard.
C13_BorrowExclusion ==
    /\ [](\A ty \in TypeKeys :
             /\ Outstanding(threads, ExclusiveKinds, ty) <= 1
             /\ Outstanding(threads, ExclusiveKinds, ty) = 1
                => Outstanding(threads, SharedKinds, ty) = 0)
    /\ [][/\ (lastOp'.op \in {"get", "query_ref"} /\ lastOp'.res \in {"ok", "panic"}
              /\ (lastOp'.op = "get" => GetCall(lastOp'.entity, lastOp'.ty).res = "ok"))
             => /\ lastOp'.res = "panic"
                   <=> Outstanding(threads, ExclusiveKinds, lastOp'.ty) > 0
                /\ lastOp'.res = "ok"
                   => Outstanding(threads', SharedKinds, lastOp'.ty)
                         = Outstanding(threads, SharedKinds, lastOp'.ty) + 1
          /\ (lastOp'.op \in {"get_mut", "query_mut"} /\ lastOp'.res \in {"ok", "panic"}
              /\ (lastOp'.op = "get_mut" => GetCall(lastOp'.entity, lastOp'.ty).res = "ok"))
             => /\ lastOp'.res = "panic"
                   <=> Outstanding(threads, GuardKinds, lastOp'.ty) > 0
                /\ lastOp'.res = "ok"
                   => Outstanding(threads', ExclusiveKinds, lastOp'.ty) = 1]_vars

\* C13 witness: two threads each are inside query::<&T>(), and the get_mut::<T>
\* of a third thread has panicked.
C13_Witness ==
    /\ lastOp.op = "get_mut"
    /\ lastOp.res = "panic"
    /\ lastOp.ty \in lastOp.before
    /\ \E t1 \in Threads : \E t2 \in Threads \ {t1} : \E t3 \in Threads \ {t1, t2} :
          /\ threads[t1].guards[<<"QueryRef", lastOp.ty>>] = 1
          /\ threads[t2].guards[<<"QueryRef", lastOp.ty>>] = 1
          /\ threads[t3].panicked
          /\ Held(t3) = 0

C15_NoStaleRows ==
    ~panicked
    => /\ \A a \in 1..Len(archetypes) : \A r \in 1..ArchLen(archetypes[a]) :
             LET id == EntityIdAt(archetypes[a], r - 1)
             IN  /\ id \notin SeqToSet(free)
                 /\ entities[id + 1].archetype = a - 1
                 /\ entities[id + 1].index = r - 1
       /\ Len(IterCall) = Cardinality(Live)

\* C16: meta points at the entity's own row. In every state, for every live
\* entity E, meta[E.id].generation is E.generation, meta[E.id].archetype is a
\* valid archetype index, meta[E.id].index is below that archetype's len, and
\* the entity id recorded at that row is E.id.
C16_MetaPointsAtOwnRow ==
    ~panicked
    => \A E \in Live :
          LET meta == entities[E.id + 1]
          IN  /\ meta.generation = E.generation
              /\ meta.archetype < Len(archetypes)
              /\ meta.index < ArchLen(archetypes[meta.archetype + 1])
              /\ EntityIdAt(archetypes[meta.archetype + 1], meta.index) = E.id

\* The slot ids that a live handle refers to.
LiveIds == {e.id : e \in Live}

\* C17: the free list partitions the slot table. In every state the free
\* stack holds no id twice, every id in it is below entities.len(), an id is in
\* it exactly when no live handle refers to that slot, and the free ids and the
\* live ids together are 0..entities.len()-1; no two live handles share a slot.
C17_FreePartition ==
    /\ \A i \in 1..Len(free) : \A j \in 1..Len(free) : i # j => free[i] # free[j]
    /\ \A i \in 1..Len(free) : free[i] >= 0 /\ free[i] < Len(entities)
    /\ \A id \in 0..(Len(entities) - 1) : id \in SeqToSet(free) <=> id \notin LiveIds
    /\ SeqToSet(free) \cup LiveIds = 0..(Len(entities) - 1)
    /\ Cardinality(LiveIds) = Cardinality(Live)
    /\ ~panicked => \A e \in handles : Contains(e) <=> e \in Live

\* C17 witness: of two slots one is free after its entity's despawn and the other
\* is live.
C17_Witness ==
    /\ lastOp.op = "despawn"
    /\ lastOp.res = "ok"
    /\ Len(entities) = 2
    /\ free = <<lastOp.entity.id>>
    /\ Cardinality(Live) = 1
    /\ \A e \in Live : e.id # lastOp.entity.id /\ Contains(e)

\* C18: one archetype per type set. In every state no two distinct archetype
\* indices have the same set of component types, however the shapes were
\* reached (spawn of a bundle, insert onto a smaller shape, remove from a larger
\* one).
C18_OneArchetypePerTypeSet ==
    \A a \in 1..Len(archetypes) : \A b \in 1..Len(archetypes) :
        a # b => ArchTypeSet(archetypes[a]) # ArchTypeSet(archetypes[b])

\* A type list sorted by TypeKey with no type twice.
StrictlyIncreasing(types) ==
    \A i \in 1..(Len(types) - 1) : types[i] < types[i + 1]

\* C19: canonical archetype shapes. In every state every key of
\* archetype_index and every archetype's type list is strictly increasing in
\* TypeKey order.
C19_CanonicalShapes ==
    /\ \A k \in DOMAIN archetype_index : StrictlyIncreasing(k)
    /\ \A a \in 1..Len(archetypes) : StrictlyIncreasing(archetypes[a].types)

\* C20: insert of a type the entity already has overwrites in place. When
\* insert(e, t: T) returns Ok for a live entity e that had a T component,
\* meta[e.id].archetype and meta[e.id].index are unchanged, no archetype is
\* created (archetypes.len() and archetype_index are unchanged), no row is
\* allocated, and nothing changes but the value of e's T cell, which is t.
C20_InsertInPlace ==
    [][(/\ lastOp'.op = "insert"
        /\ lastOp'.res = "ok"
        /\ lastOp'.ty \in TypeSetIn(entities, archetypes, lastOp'.entity))
       => LET meta == entities[lastOp'.entity.id + 1]
          IN  /\ entities' = entities
              /\ Len(archetypes') = Len(archetypes)
              /\ archetype_index' = archetype_index
              /\ \A a \in 1..Len(archetypes) :
                    ArchLen(archetypes'[a]) = ArchLen(archetypes[a])
              /\ archetypes' =
                    [archetypes EXCEPT ![meta.archetype + 1] =
                        ArchPut(@, lastOp'.ty, lastOp'.val, meta.index)]]_vars

\* C21: the borrow state covers every stored type. In every state, every
\* TypeKey in the type list of any archetype has an entry in BorrowState, also
\* for the archetypes created by insert (which registers only the inserted type)
\* and by remove (which registers nothing).
C21_BorrowsCoverTypes ==
    \A a \in 1..Len(archetypes) : ArchTypeSet(archetypes[a]) \subseteq DOMAIN borrows

\* C21 witness: an entity spawned with two components had one removed; remove
\* created the archetype of the remaining type, which is registered.
C21_Witness ==
    /\ lastOp.op = "remove"
    /\ lastOp.res = "ok"
    /\ prevOp.op = "spawn"
    /\ prevOp.entity = lastOp.entity
    /\ Len(archetypes) = 2
    /\ Len(archetypes[2].types) = 1
    /\ archetypes[2].types[1] # lastOp.ty
    /\ archetypes[2].types[1] \in DOMAIN borrows

====
